---- MODULE Spec2Model ----
(***************************************************************************)
(* The card-portfolio tracker: the App component's commands (App.tsx), the *)
(* entry form's submit (CardFormModal.tsx) and the IndexedDB repository    *)
(* (utils/db.ts).  The object store is a set of records keyed by 'id'; a    *)
(* repository call opens the database, creates one transaction, places its *)
(* requests and settles its promise from the requests' event handlers.     *)
(* Transactions on the one object store run one after another in creation  *)
(* order; a transaction's writes reach the store when it commits and are    *)
(* discarded when it aborts.                                               *)
(***************************************************************************)
EXTENDS Integers, Sequences, FiniteSets, TLC

VARIABLES store, work, calls, issued, cards, isLoading, isModalOpen,
          editingCard, reads, nextId, notice, dashboard, inventory, form

vars == <<store, work, calls, issued, cards, isLoading, isModalOpen,
          editingCard, reads, nextId, notice, dashboard, inventory, form>>

\* notice is the dialog the last step has shown and the user has closed:
\* "imported", "badFormat" or "invalid" for the alerts of reader.onload,
\* "declined" for a window.confirm answered with Cancel, "none" when the
\* step showed none.  dashboard is what DashboardView computes from the
\* cards it is given, <<>> while it is not rendered.  inventory is the
\* state of InventoryView (its filter, search term, selection) and form the
\* image state of CardFormModal (its imageUrl and the file reads it has
\* started that have not completed).

(* ------------------------------ bounds --------------------------------- *)

\* Repository calls made in one run, the mount's loadCardsFromDB included.
MaxCalls == 3

\* File reads (FileReader.readAsText) that may be pending at once.
MaxReads == 1

\* Length of the card lists the dashboard is given.
MaxShown == 3

(* ------------------------------ values --------------------------------- *)

\* JavaScript null in a numeric or date field (sellDate, sellPrice).
NULL == -1

\* The key of an entry on which the key path 'id' yields no valid key.
NoId == 0

\* parseFloat's NaN.
NaN == -2

\* InventoryView's state when it mounts.
NoSelection ==
    [filter |-> "all", searchTerm |-> "", selectedIds |-> {},
     isSelectionMode |-> FALSE]

\* CardFormModal's image state when it mounts: no image, no read pending.
\* A pending read is [image, stale]: the image it will deliver, and whether
\* the form has been reset since the read was started.
BlankForm == [imageUrl |-> NULL, pending |-> <<>>]

Record(id, createdAt, buyPrice, isSold, sellDate, sellPrice) ==
    [id |-> id, createdAt |-> createdAt, buyPrice |-> buyPrice,
     isSold |-> isSold, sellDate |-> sellDate, sellPrice |-> sellPrice]

\* Entries of backup files, and the records a store may hold at start-up.
RecA == Record(101, 0, 5, FALSE, NULL, NULL)
RecASold == Record(101, 0, 5, TRUE, 2, 8)
RecB == Record(102, 1, 3, TRUE, 2, 8)
RecUncoupled == Record(103, 0, 5, TRUE, NULL, NULL)
EntryNoId == Record(NoId, 0, 5, FALSE, NULL, NULL)

\* Records for the dashboard: a card sold for nothing, a card sold on an
\* earlier day.
RecFree == Record(104, 3, 5, TRUE, 2, 0)
RecEarly == Record(105, 2, 4, TRUE, 1, 6)

\* The object store's content when the page is opened.
InitStores == {{RecA, RecB}}

\* What a selected backup file's text parses to (JSON.parse); the content
\* of a file shows when its read completes.
File(kind, data) == [kind |-> kind, data |-> data]

ImportFiles ==
    { File("array", <<>>),
      File("array", <<RecA, RecASold>>),
      File("array", <<RecUncoupled>>),
      File("array", <<EntryNoId>>),
      File("array", <<RecB, EntryNoId>>),
      File("object", <<>>),
      File("invalid", <<>>) }

(* ----------------------------- object store ---------------------------- *)

IdsOfSet(S) == {r.id : r \in S}

IdsOf(s) == {s[i].id : i \in DOMAIN s}

\* The key path 'id' yields a valid key on the entry.
KeyOk(rec) == rec.id # NoId

\* A put that keeps the record it should replace.
PutRecordKeepsOld(w, rec) == w \cup {rec}

PutRecord(w, rec) == {r \in w : r.id # rec.id} \cup {rec}

\* A delete that empties the store when the key is absent.
DeleteRecordOrAll(w, id) ==
    IF id \in IdsOfSet(w) THEN {r \in w : r.id # id} ELSE {}

DeleteRecord(w, id) == {r \in w : r.id # id}

\* A clear that removes nothing.
ClearStoreKeepsAll(w) == w

ClearStore(w) == {}

Req(op, arg) == [op |-> op, arg |-> arg]

ApplyReq(w, rq) ==
    CASE rq.op = "put" -> PutRecord(w, rq.arg[1])
      [] rq.op = "delete" -> DeleteRecord(w, rq.arg[1])
      [] rq.op = "clear" -> ClearStore(w)
      [] OTHER -> w

\* getAll: the records in ascending key order.
RECURSIVE GetAll(_)
GetAll(S) ==
    IF S = {} THEN <<>>
    ELSE LET r == CHOOSE x \in S : \A y \in S : x.id <= y.id
         IN <<r>> \o GetAll(S \ {r})

\* data.sort((a, b) => b.createdAt - a.createdAt): stable, newest first.
RECURSIVE InsertDesc(_, _)
InsertDesc(s, r) ==
    IF s = <<>> THEN <<r>>
    ELSE IF s[Len(s)].createdAt >= r.createdAt THEN Append(s, r)
    ELSE Append(InsertDesc(SubSeq(s, 1, Len(s) - 1), r), s[Len(s)])

\* A sort that leaves the order as it is.
SortKeepsOrder(s) == s

RECURSIVE SortCreatedDesc(_)
SortCreatedDesc(s) ==
    IF s = <<>> THEN <<>>
    ELSE InsertDesc(SortCreatedDesc(SubSeq(s, 1, Len(s) - 1)), s[Len(s)])

(* ------------------------------- calls --------------------------------- *)

\* One repository call.  kind, card, ids, data: the function called and its
\* argument; phase, reqs, next: its transaction; completed, promise: the
\* executor's counter and the returned promise.  seq, cacheUpdated
\* and cardsChanged record the command that made the call: its number,
\* whether it has called setCards, and whether that changed the cards list.
NewCall(seq, kind, card, ids, data, updated, changed) ==
    [seq |-> seq, kind |-> kind, card |-> card, ids |-> ids, data |-> data,
     phase |-> "opening", reqs |-> <<>>, next |-> 1, completed |-> 0,
     promise |-> "pending", fail |-> "none",
     cacheUpdated |-> updated, cardsChanged |-> changed]

Init ==
    /\ store \in InitStores
    /\ work = store
    /\ calls = <<NewCall(1, "load", <<>>, <<>>, <<>>, FALSE, FALSE)>>
    /\ issued = 1
    /\ cards = <<>>
    /\ isLoading = TRUE
    /\ isModalOpen = FALSE
    /\ editingCard = <<>>
    /\ reads = 0
    /\ nextId = 0
    /\ notice = "none"
    /\ dashboard = <<>>
    /\ inventory = NoSelection
    /\ form = BlankForm

(* --------------------- utils/db.ts: the repository --------------------- *)

appState == <<cards, isLoading, isModalOpen, editingCard, reads, nextId>>

RemoveAt(s, k) == SubSeq(s, 1, k - 1) \o SubSeq(s, k + 1, Len(s))

\* A call is over when its transaction has finished (or was never created)
\* and its promise is settled; it then leaves calls.
IsOver(c) ==
    /\ c.phase \in {"committed", "aborted", "openFailed"}
    /\ c.promise # "pending"

CallsAfter(i, c2) ==
    IF IsOver(c2) THEN RemoveAt(calls, i) ELSE [calls EXCEPT ![i] = c2]


\* initDB resolves for the calls in the order they were made.
CanOpen(i) ==
    /\ calls[i].phase = "opening"
    /\ \A j \in 1..(i - 1) : calls[j].phase # "opening"

\* The transaction that is running: every earlier one has finished.
IsHead(i) ==
    /\ calls[i].phase = "active"
    /\ \A j \in 1..(i - 1) : calls[j].phase \notin {"opening", "active"}

\* One delete for the first id only.
DeleteReqsFirstOnly(ids) ==
    IF ids = <<>> THEN <<>> ELSE <<[op |-> "delete", arg |-> <<ids[1]>>]>>

\* ids.forEach(id => store.delete(id))
DeleteReqs(ids) == [k \in 1..Len(ids) |-> Req("delete", <<ids[k]>>)]

\* The requests the promise executor places when the transaction is created.
FirstReqs(c) ==
    CASE c.kind = "load" -> <<Req("getAll", <<>>)>>
      [] c.kind = "save" ->
            IF KeyOk(c.card[1]) THEN <<Req("put", c.card)>> ELSE <<>>
      [] c.kind = "delete" -> <<Req("delete", c.ids)>>
      [] c.kind = "bulkDelete" -> DeleteReqs(c.ids)
      [] c.kind = "bulkSave" -> <<Req("clear", <<>>)>>

\* How the promise stands when the executor returns: store.put throws on an
\* entry without key (the executor's exception rejects the promise), and
\* bulkDeleteFromDB resolves at once on an empty list.
ExecutorOutcome(c) ==
    IF c.kind = "save" /\ ~KeyOk(c.card[1]) THEN "rejected"
    ELSE IF c.kind = "bulkDelete" /\ Len(c.ids) = 0 THEN "resolved"
    ELSE "pending"

\* Index of the first entry of data on which store.put throws; 0 if none.
FirstBadKey(data) ==
    IF \A k \in DOMAIN data : KeyOk(data[k]) THEN 0
    ELSE CHOOSE k \in DOMAIN data :
            /\ ~KeyOk(data[k])
            /\ \A j \in 1..(k - 1) : KeyOk(data[j])

PutReqs(data, n) == [k \in 1..n |-> Req("put", <<data[k]>>)]

\* bulkSaveCardsToDB, clearRequest.onsuccess: resolve on an empty array, else
\* place one put per entry.  A put that throws leaves the handler by an
\* exception: the transaction aborts, and the puts placed before it get an
\* error event, whose handler rejects.  When the first entry throws, no put
\* was placed and nothing settles the promise.
OnClearSuccess(c) ==
    LET k == FirstBadKey(c.data) IN
    IF Len(c.data) = 0 THEN [c EXCEPT !.next = @ + 1, !.promise = "resolved"]
    ELSE IF k = 0
    THEN [c EXCEPT !.next = @ + 1, !.reqs = @ \o PutReqs(c.data, Len(c.data))]
    ELSE [c EXCEPT !.next = @ + 1, !.reqs = @ \o PutReqs(c.data, k - 1),
                   !.phase = "aborted", !.fail = "throw",
                   !.promise = IF k > 1 THEN "rejected" ELSE "pending"]

\* completed++; if (completed === length) resolve()
CountAndResolve(c, length) ==
    [c EXCEPT !.next = @ + 1, !.completed = @ + 1,
              !.promise = IF c.completed + 1 = length THEN "resolved" ELSE @]

\* The onsuccess handler of the request the call is waiting for.
OnSuccess(c) ==
    LET rq == c.reqs[c.next] IN
    CASE c.kind \in {"load", "save", "delete"} ->
            [c EXCEPT !.next = @ + 1, !.promise = "resolved"]
      [] c.kind = "bulkDelete" -> CountAndResolve(c, Len(c.ids))
      [] c.kind = "bulkSave" /\ rq.op = "clear" -> OnClearSuccess(c)
      [] c.kind = "bulkSave" /\ rq.op = "put" -> CountAndResolve(c, Len(c.data))

\* The onerror handler of a request: reject.  The unhandled error event
\* aborts the transaction.
OnError(c) ==
    [c EXCEPT !.phase = "aborted", !.fail = c.reqs[c.next].op,
              !.promise = IF @ = "pending" THEN "rejected" ELSE @]

\* "resolved" or "rejected" when the step from c to c2 settles the promise.
Settled(c, c2) ==
    IF c.promise = "pending" THEN c2.promise ELSE "pending"

(* ---------------- App.tsx: what runs after the await ------------------- *)

\* initData (load), handleSaveCard (save) and reader.onload (bulkSave) go on
\* after their await; handleDeleteCard and handleBulkDelete end with it.
CardsAfter(c, outcome, loaded) ==
    IF outcome = "resolved" /\ c.kind = "bulkSave" THEN c.data
    ELSE IF outcome = "resolved" /\ c.kind = "load" THEN loaded
    ELSE cards

IsLoadingAfter(c, outcome) ==
    IF outcome # "pending" /\ c.kind \in {"load", "bulkSave"} THEN FALSE
    ELSE isLoading

EditingCardAfter(c, outcome) ==
    IF outcome = "resolved" /\ c.kind = "save" THEN <<>> ELSE editingCard

\* The form's reset effect: setImageUrl(initialData.imageUrl) or
\* setImageUrl(null); the records of this model carry no image.  The reads
\* still pending were started before this reset.
ResetForm(f) ==
    [imageUrl |-> NULL,
     pending |-> [k \in DOMAIN f.pending |->
                    [f.pending[k] EXCEPT !.stale = TRUE]]]

\* setEditingCard(null) changes initialData: with the form open, its reset
\* effect runs.
FormAfter(c, outcome) ==
    IF isModalOpen /\ EditingCardAfter(c, outcome) # editingCard
    THEN ResetForm(form)
    ELSE form

\* The alert reader.onload shows when its await returns or throws.
NoticeAfter(c, outcome) ==
    IF c.kind = "bulkSave" /\ outcome = "resolved" THEN "imported"
    ELSE IF c.kind = "bulkSave" /\ outcome = "rejected" THEN "invalid"
    ELSE "none"

Continue(c, outcome, loaded) ==
    /\ cards' = CardsAfter(c, outcome, loaded)
    /\ isLoading' = IsLoadingAfter(c, outcome)
    /\ editingCard' = EditingCardAfter(c, outcome)
    /\ notice' = NoticeAfter(c, outcome)
    /\ form' = FormAfter(c, outcome)
    /\ UNCHANGED <<isModalOpen, reads, nextId, issued, dashboard, inventory>>

MarkCache(c, outcome, loaded) ==
    IF outcome = "resolved" /\ c.kind \in {"load", "bulkSave"}
    THEN [c EXCEPT !.cacheUpdated = TRUE,
                   !.cardsChanged = CardsAfter(c, outcome, loaded) # cards]
    ELSE c

(* --------------------------- storage steps ----------------------------- *)

OpenOk(i) ==
    /\ CanOpen(i)
    /\ LET c == calls[i]
           c2 == [c EXCEPT !.phase = "active", !.reqs = FirstReqs(c),
                           !.promise = ExecutorOutcome(c)]
       IN /\ calls' = [calls EXCEPT ![i] = MarkCache(c2, Settled(c, c2), <<>>)]
          /\ Continue(c, Settled(c, c2), <<>>)
    /\ UNCHANGED <<store, work>>

\* indexedDB.open fails: initDB rejects, and so does the call.
OpenFail(i) ==
    /\ CanOpen(i)
    /\ LET c == calls[i]
           c2 == [c EXCEPT !.phase = "openFailed", !.fail = "open",
                           !.promise = "rejected"]
       IN /\ calls' = CallsAfter(i, c2)
          /\ Continue(c, "rejected", <<>>)
    /\ UNCHANGED <<store, work>>

\* The running transaction's next request succeeds.
ExecOk(i) ==
    /\ IsHead(i)
    /\ calls[i].next <= Len(calls[i].reqs)
    /\ LET c == calls[i]
           c2 == OnSuccess(c)
           outcome == Settled(c, c2)
           loaded == SortCreatedDesc(GetAll(work))
       IN /\ calls' = CallsAfter(i, MarkCache(c2, outcome, loaded))
          /\ work' = IF c2.phase = "aborted" THEN store
                     ELSE ApplyReq(work, c.reqs[c.next])
          /\ Continue(c, outcome, loaded)
    /\ UNCHANGED store

\* The running transaction's next request fails.
ExecFail(i) ==
    /\ IsHead(i)
    /\ calls[i].next <= Len(calls[i].reqs)
    /\ LET c == calls[i]
           c2 == OnError(c)
       IN /\ calls' = CallsAfter(i, c2)
          /\ Continue(c, Settled(c, c2), <<>>)
    /\ work' = store
    /\ UNCHANGED store

\* Every request is done: the transaction commits.
Commit(i) ==
    /\ IsHead(i)
    /\ calls[i].next > Len(calls[i].reqs)
    /\ store' = work
    /\ LET c2 == [calls[i] EXCEPT !.phase = "committed"]
       IN /\ calls' = CallsAfter(i, c2)
    /\ notice' = "none"
    /\ UNCHANGED <<work, issued, appState, dashboard, inventory, form>>

\* The commit of a writing transaction fails (quota, I/O): it aborts.  No
\* handler of db.ts listens to the transaction.
CommitFail(i) ==
    /\ IsHead(i)
    /\ calls[i].kind # "load"
    /\ calls[i].next > Len(calls[i].reqs)
    /\ work' = store
    /\ LET c2 == [calls[i] EXCEPT !.phase = "aborted", !.fail = "commit"]
       IN /\ calls' = CallsAfter(i, c2)
    /\ notice' = "none"
    /\ UNCHANGED <<store, issued, appState, dashboard, inventory, form>>

(* ------------------- CardFormModal.tsx: the form ------------------------ *)

\* What the user can have typed in the price inputs (type="number", min 0).
PriceTexts == {"", "8"}

\* parseFloat on those texts.
ParseFloat(text) ==
    CASE text = "8" -> 8
      [] OTHER -> NaN

\* x || 0
OrZero(x) == IF x = NaN \/ x = 0 THEN 0 ELSE x

\* The sale dates the form can hold (type="date").
SellDates == {2}

\* The browser's validation of the required inputs: buyPrice always,
\* sellPrice and sellDate when isSold (required={isSold}).
FormValid(buyPrice, sold, sellPrice) ==
    /\ buyPrice # ""
    /\ sold => sellPrice # ""

\* handleSubmit: the card data handed to onSave.
FormData(buyPrice, sold, sellPrice, sellDate) ==
    [buyPrice |-> OrZero(ParseFloat(buyPrice)),
     isSold |-> sold,
     sellPrice |-> IF sold THEN OrZero(ParseFloat(sellPrice)) ELSE NULL,
     sellDate |-> IF sold THEN sellDate ELSE NULL]

(* ---------------------- JSON text of a backup --------------------------- *)

Token(t, v) == [t |-> t, v |-> v]

\* JSON.stringify of a numeric or date field: NaN is written as null.
StringifyValue(x) ==
    CASE x = NULL -> Token("null", 0)
      [] x = NaN -> Token("null", 0)
      [] OTHER -> Token("number", x)

StringifyBool(b) == IF b THEN Token("true", 0) ELSE Token("false", 0)

\* JSON.parse of a field's text.
ParseValue(tok) ==
    CASE tok.t = "null" -> NULL
      [] tok.t = "absent" -> NoId
      [] OTHER -> tok.v

ParseBool(tok) == tok.t = "true"

\* The id is a string: the text of a string is the string; a property
\* whose value is undefined is left out.
StringifyId(id) ==
    IF id = NoId THEN Token("absent", 0) ELSE Token("string", id)

StringifyRecord(r) ==
    [id |-> StringifyId(r.id),
     createdAt |-> StringifyValue(r.createdAt),
     buyPrice |-> StringifyValue(r.buyPrice),
     isSold |-> StringifyBool(r.isSold),
     sellDate |-> StringifyValue(r.sellDate),
     sellPrice |-> StringifyValue(r.sellPrice)]

ParseRecord(o) ==
    Record(ParseValue(o.id), ParseValue(o.createdAt), ParseValue(o.buyPrice),
           ParseBool(o.isSold), ParseValue(o.sellDate),
           ParseValue(o.sellPrice))

\* handleExportData: JSON.stringify(cards, null, 2), the downloaded text.
ExportData(cs) == [k \in DOMAIN cs |-> StringifyRecord(cs[k])]

\* JSON.parse of the text of an exported file.
ParseFile(text) == [k \in DOMAIN text |-> ParseRecord(text[k])]

(* ------------------------- App.tsx: commands --------------------------- *)

\* The page shows the app (not the loading screen) and no modal covers it.
PageReady == ~isLoading /\ ~isModalOpen

\* An id generator that repeats itself.
FreshIdRepeats(n) == 1

\* crypto.randomUUID(): an id no record has had; n ids were drawn before.
FreshId(n) == n + 1

\* Date.now() at the add after n earlier ones.
Now(n) == n + 2

\* A merge that stamps the record anew.
MergeRestamps(card, data) ==
    Record(card.id, card.createdAt + 1, data.buyPrice, data.isSold,
           data.sellDate, data.sellPrice)

\* { ...editingCard, ...cardData }
Merge(card, data) ==
    Record(card.id, card.createdAt, data.buyPrice, data.isSold,
           data.sellDate, data.sellPrice)

\* prev.map(c => c.id === id ? updated : c)
MapReplace(prev, id, updated) ==
    [k \in DOMAIN prev |-> IF prev[k].id = id THEN updated ELSE prev[k]]

\* prev.filter(c => !ids.includes(c.id))
RECURSIVE FilterOut(_, _)
FilterOut(prev, ids) ==
    IF prev = <<>> THEN <<>>
    ELSE IF prev[1].id \in ids THEN FilterOut(Tail(prev), ids)
    ELSE <<prev[1]>> \o FilterOut(Tail(prev), ids)

\* Array.from(selectedIds), here in ascending order.
RECURSIVE SeqOfIds(_)
SeqOfIds(S) ==
    IF S = {} THEN <<>>
    ELSE LET m == CHOOSE x \in S : \A y \in S : x <= y
         IN <<m>> \o SeqOfIds(S \ {m})

OpenAddModal ==
    /\ PageReady
    /\ editingCard' = <<>>
    /\ isModalOpen' = TRUE
    /\ notice' = "none"
    /\ form' = ResetForm(form)
    /\ UNCHANGED <<dashboard, inventory>>
    /\ UNCHANGED <<store, work, calls, issued, cards, isLoading, reads,
                   nextId>>

OpenEditModal ==
    /\ PageReady
    /\ \E k \in DOMAIN cards : editingCard' = <<cards[k]>>
    /\ isModalOpen' = TRUE
    /\ notice' = "none"
    /\ form' = ResetForm(form)
    /\ UNCHANGED <<dashboard, inventory>>
    /\ UNCHANGED <<store, work, calls, issued, cards, isLoading, reads,
                   nextId>>

\* onClose from the backdrop or the X button.
CloseModal ==
    /\ ~isLoading
    /\ isModalOpen
    /\ isModalOpen' = FALSE
    /\ notice' = "none"
    /\ UNCHANGED <<dashboard, inventory, form>>
    /\ UNCHANGED <<store, work, calls, issued, cards, isLoading,
                   editingCard, reads, nextId>>

\* handleSubmit, then handleSaveCard with a card being edited, then onClose.
SubmitEdit ==
    /\ ~isLoading
    /\ isModalOpen
    /\ editingCard # <<>>
    /\ issued < MaxCalls
    /\ \E buyPrice \in PriceTexts, sold \in BOOLEAN, sellPrice \in PriceTexts,
          sellDate \in SellDates :
          /\ FormValid(buyPrice, sold, sellPrice)
          /\ LET updatedCard ==
                    Merge(editingCard[1],
                          FormData(buyPrice, sold, sellPrice, sellDate))
                 next == MapReplace(cards, editingCard[1].id, updatedCard)
             IN /\ cards' = next
                /\ calls' = Append(calls,
                      NewCall(issued + 1, "save", <<updatedCard>>, <<>>, <<>>,
                              TRUE, next # cards))
    /\ isModalOpen' = FALSE
    /\ issued' = issued + 1
    /\ notice' = "none"
    /\ UNCHANGED <<dashboard, inventory, form>>
    /\ UNCHANGED <<store, work, isLoading, editingCard, reads, nextId>>

\* handleSubmit, then handleSaveCard with no card being edited, then onClose.
\* Date.now() is later at each add.
SubmitAdd ==
    /\ ~isLoading
    /\ isModalOpen
    /\ editingCard = <<>>
    /\ issued < MaxCalls
    /\ \E buyPrice \in PriceTexts, sold \in BOOLEAN, sellPrice \in PriceTexts,
          sellDate \in SellDates :
          /\ FormValid(buyPrice, sold, sellPrice)
          /\ LET data == FormData(buyPrice, sold, sellPrice, sellDate)
                 updatedCard ==
                    Record(FreshId(nextId), Now(nextId), data.buyPrice,
                           data.isSold, data.sellDate, data.sellPrice)
                 next == <<updatedCard>> \o cards
             IN /\ cards' = next
                /\ calls' = Append(calls,
                      NewCall(issued + 1, "save", <<updatedCard>>, <<>>, <<>>,
                              TRUE, next # cards))
    /\ nextId' = nextId + 1
    /\ isModalOpen' = FALSE
    /\ issued' = issued + 1
    /\ notice' = "none"
    /\ UNCHANGED <<dashboard, inventory, form>>
    /\ UNCHANGED <<store, work, isLoading, editingCard, reads>>

\* handleDeleteCard, the confirmation accepted.
DeleteCard ==
    /\ PageReady
    /\ issued < MaxCalls
    /\ \E k \in DOMAIN cards :
          LET next == FilterOut(cards, {cards[k].id})
          IN /\ cards' = next
             /\ calls' = Append(calls,
                   NewCall(issued + 1, "delete", <<>>, <<cards[k].id>>, <<>>,
                           TRUE, next # cards))
    /\ issued' = issued + 1
    /\ notice' = "none"
    /\ UNCHANGED <<dashboard, inventory, form>>
    /\ UNCHANGED <<store, work, isLoading, isModalOpen, editingCard,
                   reads, nextId>>

\* handleBulkDeleteClick and handleBulkDelete, the confirmation accepted.
BulkDelete ==
    /\ PageReady
    /\ issued < MaxCalls
    /\ \E S \in SUBSET IdsOf(cards) :
          /\ S # {}
          /\ LET next == FilterOut(cards, S)
             IN /\ cards' = next
                /\ calls' = Append(calls,
                      NewCall(issued + 1, "bulkDelete", <<>>, SeqOfIds(S),
                              <<>>, TRUE, next # cards))
    /\ issued' = issued + 1
    /\ notice' = "none"
    /\ UNCHANGED <<dashboard, inventory, form>>
    /\ UNCHANGED <<store, work, isLoading, isModalOpen, editingCard,
                   reads, nextId>>

\* A declined confirmation that removes the first card all the same.
DeclineDeleteRemoves ==
    /\ PageReady
    /\ cards # <<>>
    /\ notice' = "declined"
    /\ cards' = Tail(cards)
    /\ UNCHANGED <<store, work, calls, issued, isLoading, isModalOpen,
                   editingCard, reads, nextId, dashboard, inventory, form>>

\* window.confirm answered with Cancel in handleDeleteCard or
\* handleBulkDelete: nothing else happens.
DeclineDelete ==
    /\ PageReady
    /\ cards # <<>>
    /\ notice' = "declined"
    /\ UNCHANGED <<store, work, calls, issued, appState, dashboard,
                   inventory, form>>

\* handleImportFile: a file is chosen and its read begins; reads counts the
\* reads that have not completed.
SelectImportFile ==
    /\ PageReady
    /\ reads < MaxReads
    /\ reads' = reads + 1
    /\ notice' = "none"
    /\ UNCHANGED <<dashboard, inventory, form>>
    /\ UNCHANGED <<store, work, calls, issued, cards, isLoading,
                   isModalOpen, editingCard, nextId>>

\* reader.onload on an array, the overwrite confirmed: up to the await.
ImportConfirmed ==
    /\ issued < MaxCalls
    /\ reads > 0
    /\ \E f \in ImportFiles :
          /\ f.kind = "array"
          /\ calls' = Append(calls,
                NewCall(issued + 1, "bulkSave", <<>>, <<>>, f.data, FALSE,
                        FALSE))
    /\ reads' = reads - 1
    /\ isLoading' = TRUE
    /\ issued' = issued + 1
    /\ notice' = "none"
    /\ UNCHANGED <<dashboard, inventory, form>>
    /\ UNCHANGED <<store, work, cards, isModalOpen, editingCard, nextId>>

\* reader.onload on the file handleExportData has just written from the cards
\* list, the overwrite confirmed: up to the await.
ImportExported ==
    /\ issued < MaxCalls
    /\ reads > 0
    /\ calls' = Append(calls,
          NewCall(issued + 1, "bulkSave", <<>>, <<>>,
                  ParseFile(ExportData(cards)), FALSE, FALSE))
    /\ reads' = reads - 1
    /\ isLoading' = TRUE
    /\ issued' = issued + 1
    /\ notice' = "none"
    /\ UNCHANGED <<dashboard, inventory, form>>
    /\ UNCHANGED <<store, work, cards, isModalOpen, editingCard, nextId>>

\* An end of reader.onload that empties the cards list.
EndOnLoadEmpties(shown) ==
    /\ reads > 0
    /\ reads' = reads - 1
    /\ isLoading' = FALSE
    /\ notice' = shown
    /\ cards' = <<>>
    /\ UNCHANGED <<store, work, calls, issued, isModalOpen, editingCard,
                   nextId, dashboard, inventory, form>>

\* reader.onload when it makes no storage call: the dialog named by shown
\* (an alert, or the confirmation that is declined), then finally
\* setIsLoading(false).
EndOnLoad(shown) ==
    /\ reads > 0
    /\ reads' = reads - 1
    /\ isLoading' = FALSE
    /\ notice' = shown
    /\ UNCHANGED <<dashboard, inventory, form>>
    /\ UNCHANGED <<store, work, calls, issued, cards, isModalOpen,
                   editingCard, nextId>>

\* JSON.parse throws on the file's text: the catch block's alert.
ImportInvalid ==
    /\ \E f \in ImportFiles : f.kind = "invalid"
    /\ EndOnLoad("invalid")

\* The text parses to a value that is no array: the else branch's alert.
ImportNotArray ==
    /\ \E f \in ImportFiles : f.kind = "object"
    /\ EndOnLoad("badFormat")

\* The text parses to an array and the overwrite is declined.
ImportDeclined ==
    /\ \E f \in ImportFiles : f.kind = "array"
    /\ EndOnLoad("declined")

\* reader.onload when JSON.parse throws, the value is no array, or the
\* overwrite is declined.
ImportRefused ==
    \/ ImportInvalid
    \/ ImportNotArray
    \/ ImportDeclined

Next ==
    \/ \E i \in DOMAIN calls : OpenOk(i)
    \/ \E i \in DOMAIN calls : OpenFail(i)
    \/ \E i \in DOMAIN calls : ExecOk(i)
    \/ \E i \in DOMAIN calls : ExecFail(i)
    \/ \E i \in DOMAIN calls : Commit(i)
    \/ \E i \in DOMAIN calls : CommitFail(i)
    \/ OpenAddModal
    \/ OpenEditModal
    \/ CloseModal
    \/ SubmitAdd
    \/ SubmitEdit
    \/ DeleteCard
    \/ BulkDelete
    \/ DeclineDelete
    \/ SelectImportFile
    \/ ImportConfirmed
    \/ ImportRefused

Spec == Init /\ [][Next]_vars

\* The add command alone: the mount's load, the add form and the storage
\* steps of the calls they make.
NextAdd ==
    \/ \E i \in DOMAIN calls : OpenOk(i)
    \/ \E i \in DOMAIN calls : OpenFail(i)
    \/ \E i \in DOMAIN calls : ExecOk(i)
    \/ \E i \in DOMAIN calls : ExecFail(i)
    \/ \E i \in DOMAIN calls : Commit(i)
    \/ \E i \in DOMAIN calls : CommitFail(i)
    \/ OpenAddModal
    \/ CloseModal
    \/ SubmitAdd

SpecAdd == Init /\ [][NextAdd]_vars

\* The form's commands alone: the mount's load, add and edit, and the
\* storage steps of the calls they make.
NextEdit ==
    \/ \E i \in DOMAIN calls : OpenOk(i)
    \/ \E i \in DOMAIN calls : OpenFail(i)
    \/ \E i \in DOMAIN calls : ExecOk(i)
    \/ \E i \in DOMAIN calls : ExecFail(i)
    \/ \E i \in DOMAIN calls : Commit(i)
    \/ \E i \in DOMAIN calls : CommitFail(i)
    \/ OpenAddModal
    \/ OpenEditModal
    \/ CloseModal
    \/ SubmitAdd
    \/ SubmitEdit

SpecEdit == Init /\ [][NextEdit]_vars

\* The destructive commands alone: the mount's load, delete, bulk delete and
\* import, with their confirmations and the storage steps of their calls.
NextImport ==
    \/ \E i \in DOMAIN calls : OpenOk(i)
    \/ \E i \in DOMAIN calls : OpenFail(i)
    \/ \E i \in DOMAIN calls : ExecOk(i)
    \/ \E i \in DOMAIN calls : ExecFail(i)
    \/ \E i \in DOMAIN calls : Commit(i)
    \/ \E i \in DOMAIN calls : CommitFail(i)
    \/ DeleteCard
    \/ BulkDelete
    \/ DeclineDelete
    \/ SelectImportFile
    \/ ImportConfirmed
    \/ ImportRefused

SpecImport == Init /\ [][NextImport]_vars

\* Export and re-import: the mount's load; add, delete and import to change
\* the record set; and the import of the file just exported.
NextRoundTrip ==
    \/ \E i \in DOMAIN calls : OpenOk(i)
    \/ \E i \in DOMAIN calls : OpenFail(i)
    \/ \E i \in DOMAIN calls : ExecOk(i)
    \/ \E i \in DOMAIN calls : ExecFail(i)
    \/ \E i \in DOMAIN calls : Commit(i)
    \/ \E i \in DOMAIN calls : CommitFail(i)
    \/ OpenAddModal
    \/ SubmitAdd
    \/ DeleteCard
    \/ SelectImportFile
    \/ ImportConfirmed
    \/ ImportExported

SpecRoundTrip == Init /\ [][NextRoundTrip]_vars

(* ------------------ DashboardView.tsx: the statistics ------------------ *)

\* A value an if or a && takes as true: not null, NaN or 0.
Truthy(x) == x \notin {NULL, NaN, 0}

\* let totalInvested = 0; ... let unsoldValue = 0;
ZeroSums ==
    [totalInvested |-> 0, totalSoldVal |-> 0, soldCostBasis |-> 0,
     soldCount |-> 0, unsoldValue |-> 0]

\* A loop body that leaves the sold cards out of totalInvested.
AddCardUnsoldOnly(acc, c) ==
    IF c.isSold THEN acc
    ELSE [acc EXCEPT !.totalInvested = @ + c.buyPrice,
                     !.unsoldValue = @ + c.buyPrice]

\* The body of filteredCards.forEach in stats.
AddCard(acc, c) ==
    LET a1 == [acc EXCEPT !.totalInvested = @ + c.buyPrice] IN
    IF c.isSold
    THEN IF Truthy(c.sellPrice)
         THEN [a1 EXCEPT !.totalSoldVal = @ + c.sellPrice,
                         !.soldCostBasis = @ + c.buyPrice,
                         !.soldCount = @ + 1]
         ELSE a1
    ELSE [a1 EXCEPT !.unsoldValue = @ + c.buyPrice]

RECURSIVE StatsLoop(_, _)
StatsLoop(acc, s) ==
    IF s = <<>> THEN acc ELSE StatsLoop(AddCard(acc, s[1]), Tail(s))

\* soldCostBasis > 0 ? (netProfit / soldCostBasis) * 100 : 0, as a fraction.
Roi(netProfit, soldCostBasis) ==
    IF soldCostBasis > 0
    THEN [num |-> netProfit * 100, den |-> soldCostBasis]
    ELSE [num |-> 0, den |-> 1]

\* The object stats returns.
Stats(filteredCards) ==
    LET acc == StatsLoop(ZeroSums, filteredCards)
        netProfit == acc.totalSoldVal - acc.soldCostBasis
    IN [totalInvested |-> acc.totalInvested,
        totalSoldVal |-> acc.totalSoldVal,
        netProfit |-> netProfit,
        roi |-> Roi(netProfit, acc.soldCostBasis),
        totalCards |-> Len(filteredCards),
        soldCount |-> acc.soldCount,
        unsoldValue |-> acc.unsoldValue]

\* filteredCards.filter(c => c.isSold && c.sellDate && c.sellPrice)
RECURSIVE SoldCards(_)
SoldCards(s) ==
    IF s = <<>> THEN <<>>
    ELSE IF s[1].isSold /\ Truthy(s[1].sellDate) /\ Truthy(s[1].sellPrice)
         THEN <<s[1]>> \o SoldCards(Tail(s))
         ELSE SoldCards(Tail(s))

\* .sort((a, b) => time of a.sellDate - time of b.sellDate): stable.
RECURSIVE InsertBySellDate(_, _)
InsertBySellDate(s, r) ==
    IF s = <<>> THEN <<r>>
    ELSE IF s[Len(s)].sellDate <= r.sellDate THEN Append(s, r)
    ELSE Append(InsertBySellDate(SubSeq(s, 1, Len(s) - 1), r), s[Len(s)])

RECURSIVE SortBySellDate(_)
SortBySellDate(s) ==
    IF s = <<>> THEN <<>>
    ELSE InsertBySellDate(SortBySellDate(SubSeq(s, 1, Len(s) - 1)), s[Len(s)])

\* timeline.set(date, { profit, sales }): a date that is in the map keeps
\* its place and takes the new value.
TimelineSet(timeline, point) ==
    IF \E k \in DOMAIN timeline : timeline[k].date = point.date
    THEN [k \in DOMAIN timeline |->
            IF timeline[k].date = point.date THEN point ELSE timeline[k]]
    ELSE Append(timeline, point)

\* soldCards.forEach with the running sums.
RECURSIVE ChartLoop(_, _, _, _)
ChartLoop(timeline, runningProfit, runningSales, s) ==
    IF s = <<>> THEN timeline
    ELSE LET profit == runningProfit + (s[1].sellPrice - s[1].buyPrice)
             sales == runningSales + s[1].sellPrice
         IN ChartLoop(TimelineSet(timeline,
                         [date |-> s[1].sellDate, profit |-> profit,
                          sales |-> sales]),
                      profit, sales, Tail(s))

\* chartData: Array.from(timeline.entries()).
ChartData(filteredCards) ==
    ChartLoop(<<>>, 0, 0, SortBySellDate(SoldCards(filteredCards)))

\* The dashboard is rendered on the cards list, the date filter 'all'
\* letting every card through.
RenderDashboard ==
    /\ ~isLoading
    /\ dashboard' = <<[stats |-> Stats(cards), chartData |-> ChartData(cards)]>>
    /\ notice' = "none"
    /\ UNCHANGED <<store, work, calls, issued, appState, inventory, form>>

\* The card lists the dashboard is rendered on.
StatsRecords == {RecA, RecB, RecFree, RecUncoupled, RecEarly}

StatsInputs == UNION {[1..n -> StatsRecords] : n \in 0..MaxShown}

\* The state after the import of a list: each id is stored once, with the
\* list's last entry for it.
InitStats ==
    /\ cards \in StatsInputs
    /\ store = {cards[k] : k \in {j \in DOMAIN cards :
                   \A m \in (j + 1)..Len(cards) : cards[m].id # cards[j].id}}
    /\ work = store
    /\ calls = <<>>
    /\ issued = 0
    /\ isLoading = FALSE
    /\ isModalOpen = FALSE
    /\ editingCard = <<>>
    /\ reads = 0
    /\ nextId = 0
    /\ notice = "none"
    /\ dashboard = <<>>
    /\ inventory = NoSelection
    /\ form = BlankForm

NextStats == RenderDashboard

SpecStats == InitStats /\ [][NextStats]_vars

(* ------------------ DashboardView.tsx: the date filter ----------------- *)

\* Time is counted in ticks since the epoch, in UTC; a day has TicksPerDay
\* of them.  A calendar day is its number since 1 January 1970; the years
\* of this calendar all have DaysPerYear days.
TicksPerDay == 4

DaysPerYear == 365

EpochYear == 1970

\* Days of the year before the first day of month m (0 is January).
DaysBeforeMonth ==
    <<0, 31, 59, 90, 120, 151, 181, 212, 243, 273, 304, 334>>

MonthDays == <<31, 28, 31, 30, 31, 30, 31, 31, 30, 31, 30, 31>>

YearOf(day) == EpochYear + (day \div DaysPerYear)

MonthOf(day) ==
    LET doy == day % DaysPerYear
    IN CHOOSE m \in 0..11 :
          /\ DaysBeforeMonth[m + 1] <= doy
          /\ doy < DaysBeforeMonth[m + 1] + MonthDays[m + 1]

DateOf(day) == (day % DaysPerYear) - DaysBeforeMonth[MonthOf(day) + 1] + 1

\* The day that year y, month m, day-of-month d name; a month outside
\* 0..11 and a day outside the month carry over, as in the Date constructor.
MakeDay(y, m, d) ==
    ((y + (m \div 12)) - EpochYear) * DaysPerYear
       + DaysBeforeMonth[(m % 12) + 1] + d - 1

\* The local day and time of day of instant t where local time is UTC + tz.
LocalDay(t, tz) == (t + tz) \div TicksPerDay

LocalTick(t, tz) == (t + tz) % TicksPerDay

\* new Date(y, m, d): local midnight of that day.
LocalMidnight(day, tz) == day * TicksPerDay - tz

\* new Date("YYYY-MM-DD"): UTC midnight of that day.
ParseDate(day) == day * TicksPerDay

\* now.getDate(), now.getMonth(), now.getFullYear()
GetDate(t, tz) == DateOf(LocalDay(t, tz))

GetMonth(t, tz) == MonthOf(LocalDay(t, tz))

GetFullYear(t, tz) == YearOf(LocalDay(t, tz))

\* t.setDate(d): the day of the month of t is set, the rest is kept.
SetDate(t, d, tz) ==
    MakeDay(GetFullYear(t, tz), GetMonth(t, tz), d) * TicksPerDay
       + LocalTick(t, tz) - tz

\* t.setFullYear(y)
SetFullYear(t, y, tz) ==
    MakeDay(y, GetMonth(t, tz), GetDate(t, tz)) * TicksPerDay
       + LocalTick(t, tz) - tz

\* t.setHours(23, 59, 59, 999): the last tick of t's local day.
EndOfDay(t, tz) ==
    LocalDay(t, tz) * TicksPerDay + (TicksPerDay - 1) - tz

DateFilters ==
    {"all", "7days", "30days", "90days", "year", "thisMonth", "lastMonth",
     "custom"}

\* start.setDate(now.getDate() - n) on start = new Date(0).
DaysBack(now, n, tz) == SetDate(0, GetDate(now, tz) - n, tz)

\* start and end after the switch on dateFilter; customStart and customEnd
\* are days, NULL for the empty text.
Window(dateFilter, now, tz, customStart, customEnd) ==
    LET y == GetFullYear(now, tz)
        m == GetMonth(now, tz)
        range(start, end) == [start |-> start, end |-> end]
    IN CASE dateFilter = "7days" -> range(DaysBack(now, 7, tz), now)
         [] dateFilter = "30days" -> range(DaysBack(now, 30, tz), now)
         [] dateFilter = "90days" -> range(DaysBack(now, 90, tz), now)
         [] dateFilter = "year" -> range(SetFullYear(0, y - 1, tz), now)
         [] dateFilter = "thisMonth" ->
               range(LocalMidnight(MakeDay(y, m, 1), tz), now)
         [] dateFilter = "lastMonth" ->
               range(LocalMidnight(MakeDay(y, m - 1, 1), tz),
                     LocalMidnight(MakeDay(y, m, 0), tz))
         [] dateFilter = "custom" ->
               range(IF customStart # NULL THEN ParseDate(customStart) ELSE 0,
                     EndOfDay(IF customEnd # NULL THEN ParseDate(customEnd)
                              ELSE now, tz))
         [] OTHER -> range(0, now)

\* The filter's test of one card.
InRange(c, w) ==
    LET buyDate == ParseDate(c.buyDate)
        buyInRange == buyDate >= w.start /\ buyDate <= w.end
        sellInRange ==
           /\ c.sellDate # NULL
           /\ ParseDate(c.sellDate) >= w.start
           /\ ParseDate(c.sellDate) <= w.end
    IN buyInRange \/ sellInRange

\* cards.filter(...)
RECURSIVE FilterCards(_, _)
FilterCards(cs, w) ==
    IF cs = <<>> THEN <<>>
    ELSE IF InRange(cs[1], w) THEN <<cs[1]>> \o FilterCards(Tail(cs), w)
    ELSE FilterCards(Tail(cs), w)

\* A card as the dashboard reads it: with its buyDate, a day.
DatedCard(id, buyDate, isSold, sellDate) ==
    [id |-> id, createdAt |-> id, buyDate |-> buyDate, buyPrice |-> 5,
     isSold |-> isSold, sellDate |-> sellDate,
     sellPrice |-> IF isSold THEN 8 ELSE NULL]

\* Cards around 1 March 1971 (day 424): bought long before, on the last day
\* of January, the first and the last day of February, in March; and one
\* bought long before and sold in March.
FilterRecords ==
    { DatedCard(201, 300, FALSE, NULL),
      DatedCard(202, 395, FALSE, NULL),
      DatedCard(203, 396, FALSE, NULL),
      DatedCard(204, 423, FALSE, NULL),
      DatedCard(205, 430, FALSE, NULL),
      DatedCard(206, 300, TRUE, 438) }

FilterInputs == UNION {[1..n -> FilterRecords] : n \in 0..MaxShown}

\* The instants at which the dashboard is rendered: the morning of 17 March
\* 1971 and the first tick of 1 March 1971 (UTC).
Nows == {440 * TicksPerDay + 1, 424 * TicksPerDay}

\* Local time is UTC + tz ticks.
Zones == {-1, 0, 1}

\* What the two date inputs of the custom filter can hold.
CustomDays == {NULL, 396, 423}

\* The dashboard is rendered at instant now under a date filter.
RenderFiltered ==
    /\ ~isLoading
    /\ \E dateFilter \in DateFilters, now \in Nows, tz \in Zones,
          customStart \in CustomDays, customEnd \in CustomDays :
          /\ dateFilter # "custom" => customStart = NULL /\ customEnd = NULL
          /\ LET w == Window(dateFilter, now, tz, customStart, customEnd)
                 filteredCards == FilterCards(cards, w)
             IN dashboard' =
                   <<[dateFilter |-> dateFilter, now |-> now, tz |-> tz,
                      filteredCards |-> filteredCards,
                      stats |-> Stats(filteredCards),
                      chartData |-> ChartData(filteredCards)]>>
    /\ notice' = "none"
    /\ UNCHANGED <<store, work, calls, issued, appState, inventory, form>>

InitFilter ==
    /\ cards \in FilterInputs
    /\ store = {cards[k] : k \in {j \in DOMAIN cards :
                   \A m \in (j + 1)..Len(cards) : cards[m].id # cards[j].id}}
    /\ work = store
    /\ calls = <<>>
    /\ issued = 0
    /\ isLoading = FALSE
    /\ isModalOpen = FALSE
    /\ editingCard = <<>>
    /\ reads = 0
    /\ nextId = 0
    /\ notice = "none"
    /\ dashboard = <<>>
    /\ inventory = NoSelection
    /\ form = BlankForm

NextFilter == RenderFiltered

SpecFilter == InitFilter /\ [][NextFilter]_vars

(* --------------- CardFormModal.tsx: the image of the form -------------- *)

\* File reads one form can have pending at a time.
MaxImageReads == 2

\* The image files the user can choose, each named by the data URL its read
\* delivers.
Images == {1, 2}

\* handleImageUpload: a file is chosen in the open form and a new FileReader
\* begins to read it.
SelectImage ==
    /\ ~isLoading
    /\ isModalOpen
    /\ Len(form.pending) < MaxImageReads
    /\ \E image \in Images :
          form' = [form EXCEPT
                     !.pending = Append(@, [image |-> image, stale |-> FALSE])]
    /\ notice' = "none"
    /\ UNCHANGED <<store, work, calls, issued, appState, dashboard,
                   inventory>>

\* reader.onloadend of the k-th pending read: setImageUrl(reader.result),
\* whether the form is shown or not.
ImageLoaded(k) ==
    /\ ~isLoading
    /\ form' = [imageUrl |-> form.pending[k].image,
                pending |-> RemoveAt(form.pending, k)]
    /\ notice' = "none"
    /\ UNCHANGED <<store, work, calls, issued, appState, dashboard,
                   inventory>>

\* The button on the preview: setImageUrl(null).
RemovePhoto ==
    /\ ~isLoading
    /\ isModalOpen
    /\ form.imageUrl # NULL
    /\ form' = [form EXCEPT !.imageUrl = NULL]
    /\ notice' = "none"
    /\ UNCHANGED <<store, work, calls, issued, appState, dashboard,
                   inventory>>

\* The form with its image: the mount's load, add and edit, the image
\* reads, and the storage steps of the calls that are made.
NextForm ==
    \/ \E i \in DOMAIN calls : OpenOk(i)
    \/ \E i \in DOMAIN calls : OpenFail(i)
    \/ \E i \in DOMAIN calls : ExecOk(i)
    \/ \E i \in DOMAIN calls : ExecFail(i)
    \/ \E i \in DOMAIN calls : Commit(i)
    \/ \E i \in DOMAIN calls : CommitFail(i)
    \/ OpenAddModal
    \/ OpenEditModal
    \/ CloseModal
    \/ SubmitAdd
    \/ SubmitEdit
    \/ SelectImage
    \/ \E k \in DOMAIN form.pending : ImageLoaded(k)
    \/ RemovePhoto

SpecForm == Init /\ [][NextForm]_vars

(* ------------------ InventoryView.tsx: the selection ------------------- *)

\* What the user can have typed in the search box.
SearchTerms == {"", "pika"}

\* The ids of the cards whose name or series contains the term.
Named(term) == IF term = "pika" THEN {101} ELSE {}

MatchesSearch(card, term) == term = "" \/ card.id \in Named(term)

RECURSIVE FilterInventory(_, _, _)
FilterInventory(cs, filter, term) ==
    IF cs = <<>> THEN <<>>
    ELSE LET card == cs[1]
             keep == /\ MatchesSearch(card, term)
                     /\ filter = "owned" => ~card.isSold
                     /\ filter = "sold" => card.isSold
         IN (IF keep THEN <<card>> ELSE <<>>)
               \o FilterInventory(Tail(cs), filter, term)

\* filteredCards, under the sort option the view starts with.
FilteredCards ==
    SortCreatedDesc(
       FilterInventory(cards, inventory.filter, inventory.searchTerm))

\* setFilter to another filter; the effect on [filter, searchTerm] clears
\* the selection.
SetFilter ==
    /\ PageReady
    /\ \E f \in {"all", "owned", "sold"} :
          /\ f # inventory.filter
          /\ inventory' = [inventory EXCEPT !.filter = f, !.selectedIds = {}]
    /\ notice' = "none"
    /\ UNCHANGED <<store, work, calls, issued, appState, dashboard, form>>

\* setSearchTerm to another text; the same effect clears the selection.
SetSearchTerm ==
    /\ PageReady
    /\ \E t \in SearchTerms :
          /\ t # inventory.searchTerm
          /\ inventory' =
                [inventory EXCEPT !.searchTerm = t, !.selectedIds = {}]
    /\ notice' = "none"
    /\ UNCHANGED <<store, work, calls, issued, appState, dashboard, form>>

\* The button shown outside selection mode: setIsSelectionMode(true).
EnterSelectionMode ==
    /\ PageReady
    /\ ~inventory.isSelectionMode
    /\ inventory' = [inventory EXCEPT !.isSelectionMode = TRUE]
    /\ notice' = "none"
    /\ UNCHANGED <<store, work, calls, issued, appState, dashboard, form>>

\* The cancel button of selection mode: setIsSelectionMode(false).
CancelSelectionMode ==
    /\ PageReady
    /\ inventory.isSelectionMode
    /\ inventory' = [inventory EXCEPT !.isSelectionMode = FALSE]
    /\ notice' = "none"
    /\ UNCHANGED <<store, work, calls, issued, appState, dashboard, form>>

\* A click on a displayed card in selection mode: toggleSelection(card.id).
ToggleSelection ==
    /\ PageReady
    /\ inventory.isSelectionMode
    /\ \E k \in DOMAIN FilteredCards :
          LET id == FilteredCards[k].id
          IN inventory' =
                [inventory EXCEPT
                   !.selectedIds = IF id \in @ THEN @ \ {id} ELSE @ \cup {id}]
    /\ notice' = "none"
    /\ UNCHANGED <<store, work, calls, issued, appState, dashboard, form>>

\* handleBulkDeleteClick on a selection, the confirmation of
\* handleBulkDelete accepted.
BulkDeleteSelected ==
    /\ PageReady
    /\ inventory.isSelectionMode
    /\ inventory.selectedIds # {}
    /\ issued < MaxCalls
    /\ LET next == FilterOut(cards, inventory.selectedIds)
       IN /\ cards' = next
          /\ calls' = Append(calls,
                NewCall(issued + 1, "bulkDelete", <<>>,
                        SeqOfIds(inventory.selectedIds), <<>>, TRUE,
                        next # cards))
    /\ issued' = issued + 1
    /\ inventory' =
          [inventory EXCEPT !.selectedIds = {}, !.isSelectionMode = FALSE]
    /\ notice' = "none"
    /\ UNCHANGED <<store, work, isLoading, isModalOpen, editingCard, reads,
                   nextId, dashboard, form>>

\* handleBulkDeleteClick on a selection, the confirmation declined: the
\* selection is cleared all the same.
BulkDeleteDeclined ==
    /\ PageReady
    /\ inventory.isSelectionMode
    /\ inventory.selectedIds # {}
    /\ inventory' =
          [inventory EXCEPT !.selectedIds = {}, !.isSelectionMode = FALSE]
    /\ notice' = "declined"
    /\ UNCHANGED <<store, work, calls, issued, appState, dashboard, form>>

\* The delete button of a displayed card, shown outside selection mode:
\* onDelete(card.id), the confirmation accepted.
DeleteShown ==
    /\ PageReady
    /\ ~inventory.isSelectionMode
    /\ issued < MaxCalls
    /\ \E k \in DOMAIN FilteredCards :
          LET id == FilteredCards[k].id
              next == FilterOut(cards, {id})
          IN /\ cards' = next
             /\ calls' = Append(calls,
                   NewCall(issued + 1, "delete", <<>>, <<id>>, <<>>, TRUE,
                           next # cards))
    /\ issued' = issued + 1
    /\ notice' = "none"
    /\ UNCHANGED <<store, work, isLoading, isModalOpen, editingCard, reads,
                   nextId, dashboard, inventory, form>>

\* The inventory view: the mount's load, the view's commands and the
\* storage steps of the calls they make.
NextInventory ==
    \/ \E i \in DOMAIN calls : OpenOk(i)
    \/ \E i \in DOMAIN calls : OpenFail(i)
    \/ \E i \in DOMAIN calls : ExecOk(i)
    \/ \E i \in DOMAIN calls : ExecFail(i)
    \/ \E i \in DOMAIN calls : Commit(i)
    \/ \E i \in DOMAIN calls : CommitFail(i)
    \/ SetFilter
    \/ SetSearchTerm
    \/ EnterSelectionMode
    \/ CancelSelectionMode
    \/ ToggleSelection
    \/ BulkDeleteSelected
    \/ BulkDeleteDeclined
    \/ DeleteShown

SpecInventory == Init /\ [][NextInventory]_vars

(* ------------------ the repository called on its own ------------------- *)

\* Contents of the object store the repository is called on.
RepoStores == {{}, {RecA, RecB}, {RecA, RecB, RecUncoupled}}

\* Arguments of the calls: records to save, ids to delete (104 is the id of
\* no record), lists of ids to delete.
SaveArgs == {RecASold, RecUncoupled}

DeleteArgs == {101, 104}

BulkDeleteArgs == {<<>>, <<101, 101>>, <<102, 104>>, <<101, 103>>}

InitRepo ==
    /\ store \in RepoStores
    /\ work = store
    /\ calls = <<>>
    /\ issued = 0
    /\ cards = <<>>
    /\ isLoading = FALSE
    /\ isModalOpen = FALSE
    /\ editingCard = <<>>
    /\ reads = 0
    /\ nextId = 0
    /\ notice = "none"
    /\ dashboard = <<>>
    /\ inventory = NoSelection
    /\ form = BlankForm

\* The caller awaits each call: no promise is pending when it calls again.
Awaited == \A i \in DOMAIN calls : calls[i].promise # "pending"

CallRepo(kind, card, ids) ==
    /\ issued < MaxCalls
    /\ Awaited
    /\ calls' = Append(calls,
          NewCall(issued + 1, kind, card, ids, <<>>, FALSE, FALSE))
    /\ issued' = issued + 1
    /\ notice' = "none"
    /\ UNCHANGED <<store, work, appState, dashboard, inventory, form>>

\* await loadCardsFromDB(); the caller keeps the result in cards.
CallLoad == CallRepo("load", <<>>, <<>>)

\* await saveCardToDB(card)
CallSave == \E card \in SaveArgs : CallRepo("save", <<card>>, <<>>)

\* await deleteCardFromDB(id)
CallDelete == \E id \in DeleteArgs : CallRepo("delete", <<>>, <<id>>)

\* await bulkDeleteFromDB(ids)
CallBulkDelete == \E ids \in BulkDeleteArgs : CallRepo("bulkDelete", <<>>, ids)

NextRepo ==
    \/ \E i \in DOMAIN calls : OpenOk(i)
    \/ \E i \in DOMAIN calls : OpenFail(i)
    \/ \E i \in DOMAIN calls : ExecOk(i)
    \/ \E i \in DOMAIN calls : ExecFail(i)
    \/ \E i \in DOMAIN calls : Commit(i)
    \/ \E i \in DOMAIN calls : CommitFail(i)
    \/ CallLoad
    \/ CallSave
    \/ CallDelete
    \/ CallBulkDelete

SpecRepo == InitRepo /\ [][NextRepo]_vars

(* ------------------------------ properties ----------------------------- *)

UniqueIds(s) == \A j, k \in DOMAIN s : s[j].id = s[k].id => j = k

UniqueKeys(S) == \A r, q \in S : r.id = q.id => r = q

\* The calls of the single-record commands and of bulk delete.
IsRecordCall(c) == c.kind \in {"save", "delete", "bulkDelete"}

\* C1: when the storage call of an add, edit, delete or bulk delete fails
\* (its promise is rejected), the command has not changed the cards list: no
\* change of the list is made before the storage call has succeeded.
C1_NoChangeOnFailure ==
    [][\A i \in DOMAIN calls :
          (IsRecordCall(calls[i]) /\ (OpenFail(i) \/ ExecFail(i)))
             => ~calls[i].cardsChanged]_vars

\* C2: a mutating command calls setCards only after the promise of its
\* storage call has resolved.
C2_CacheAfterWrite ==
    \A i \in DOMAIN calls :
       (calls[i].kind # "load" /\ calls[i].cacheUpdated)
          => calls[i].promise = "resolved"

\* C3: at most one storage call made by the UI is pending at any time.
C3_OnePending ==
    Cardinality({i \in DOMAIN calls : calls[i].promise = "pending"}) <= 1

\* C4: when the clear or a put of bulkSaveCardsToDB fails, so that its
\* transaction aborts, the promise is rejected.
C4_FailureRejects ==
    \A i \in DOMAIN calls :
       (calls[i].kind = "bulkSave" /\ calls[i].phase = "aborted")
          => calls[i].promise = "rejected"

\* No call has storage work left: nothing more will happen to the calls.
StorageIdle ==
    \A i \in DOMAIN calls : calls[i].phase \notin {"opening", "active"}

\* C5: every import ends: once no storage work is left, no promise is
\* pending and isLoading is false.
C5_ImportEnds ==
    StorageIdle =>
       /\ \A i \in DOMAIN calls : calls[i].promise # "pending"
       /\ ~isLoading

\* The entries of data that no later entry with the same id replaces.
LastWins(data) ==
    {data[k] : k \in {j \in DOMAIN data :
                        \A m \in (j + 1)..Len(data) : data[m].id # data[j].id}}

\* C6: when bulkSaveCardsToDB(data) has resolved, the store as its
\* transaction leaves it holds exactly the given records: one record per id
\* of data, each an entry of data (the last one with that id), and nothing
\* that was in the store before; the commit makes that the store.
C6_ReplaceAllExact ==
    [][\A i \in DOMAIN calls :
          (calls[i].kind = "bulkSave" /\ calls[i].promise = "resolved")
             => /\ work = LastWins(calls[i].data)
                /\ IdsOfSet(work) = IdsOf(calls[i].data)
                /\ Commit(i) => store' = LastWins(calls[i].data)]_vars

\* A resolved import of two entries with one id over a store that held a
\* record with another id.
C6_Witness ==
    \E i \in DOMAIN calls :
       /\ calls[i].kind = "bulkSave"
       /\ calls[i].promise = "resolved"
       /\ Len(calls[i].data) = 2
       /\ \E r \in store : r.id \notin IdsOfSet(work)

\* C7: once bulkDeleteFromDB or bulkSaveCardsToDB has resolved, its writes
\* are not rolled back.
C7_ResolvedIsDurable ==
    [][\A i \in DOMAIN calls :
          (calls[i].kind \in {"bulkDelete", "bulkSave"}
             /\ calls[i].promise = "resolved") => ~CommitFail(i)]_vars

\* C8: after any sequence of adds no two records of the store, and no two
\* of the cards list, share an id.
C8_AddsKeepIdsUnique ==
    /\ UniqueIds(cards)
    /\ UniqueKeys(store)
    /\ UniqueKeys(work)

\* Two adds are in the list and in the store beside the two loaded records.
C8_Witness ==
    /\ Len(cards) = 4
    /\ Cardinality(store) = 4

\* C9: the cards list never holds two records with the same id.
C9_CardsUniqueIds == UniqueIds(cards)

\* isSold is true iff sellDate and sellPrice are both non-null, and false
\* iff both are null.
Coupled(r) ==
    /\ r.isSold <=> (r.sellDate # NULL /\ r.sellPrice # NULL)
    /\ ~r.isSold <=> (r.sellDate = NULL /\ r.sellPrice = NULL)

\* C10: every record of the store has isSold coupled with sellDate and
\* sellPrice.
C10_SoldCoupling == \A r \in store : Coupled(r)

Range(s) == {s[k] : k \in DOMAIN s}

\* C11: exporting the cards list R and importing the exported file, the
\* overwrite confirmed, leaves the cards list and the store equal to R: when
\* the import of a file holding what handleExportData writes from the cards
\* list resolves, the cards list is still R and the store, as the import's
\* transaction leaves it, holds exactly the records of R.
C11_RoundTrip ==
    [][\A i \in DOMAIN calls :
          (/\ calls[i].kind = "bulkSave"
           /\ calls[i].promise = "pending"
           /\ calls[i].data = ParseFile(ExportData(cards))
           /\ ExecOk(i)
           /\ notice' = "imported")
             => /\ cards' = cards
                /\ work' = Range(cards)]_vars

\* Every request of the call's transaction has succeeded.
AllDone(c) == c.phase = "active" /\ c.next > Len(c.reqs)

\* C12: deleteCardFromDB(id) for an id that is not in the store (never
\* there, or removed by an earlier delete) resolves when its request
\* succeeds and leaves the store as it was; a delete that commits leaves the
\* store without the id, so that a second delete finds it absent.
C12_DeleteIdempotent ==
    [][\A i \in DOMAIN calls :
          calls[i].kind = "delete" =>
             /\ ExecOk(i) => calls'[i].promise = "resolved"
             /\ Commit(i) =>
                   /\ calls[i].ids[1] \notin IdsOfSet(store')
                   /\ \A r \in store : r.id # calls[i].ids[1] => r \in store'
                   /\ store' \subseteq store
             /\ ((Commit(i) \/ CommitFail(i))
                    /\ calls[i].ids[1] \notin IdsOfSet(store))
                   => store' = store]_vars

\* A second delete of id 101 has resolved: an earlier call removed the
\* record from a store that still holds another one.
C12_Witness ==
    \E i \in DOMAIN calls :
       /\ calls[i].kind = "delete"
       /\ calls[i].promise = "resolved"
       /\ calls[i].ids[1] = 101
       /\ 101 \notin IdsOfSet(store)
       /\ RecB \in store

\* The store after one committed deleteCardFromDB(id) for each id of ids.
RECURSIVE AfterDeletes(_, _)
AfterDeletes(S, ids) ==
    IF ids = <<>> THEN S
    ELSE AfterDeletes({r \in S : r.id # ids[1]}, Tail(ids))

\* C13: bulkDeleteFromDB(ids) has resolved once all its requests have
\* succeeded (at once on an empty list), and its commit leaves the store as
\* one deleteCardFromDB for each listed id would; with an empty list the
\* store is unchanged.
C13_BulkDeleteAsDeletes ==
    [][\A i \in DOMAIN calls :
          calls[i].kind = "bulkDelete" =>
             /\ AllDone(calls[i]) => calls[i].promise = "resolved"
             /\ Commit(i) =>
                   /\ store' = AfterDeletes(store, calls[i].ids)
                   /\ calls[i].ids = <<>> => store' = store]_vars

\* A bulk delete that names a stored id twice has resolved, the record
\* removed in its transaction.
C13_Witness ==
    \E i \in DOMAIN calls :
       /\ calls[i].kind = "bulkDelete"
       /\ calls[i].ids = <<101, 101>>
       /\ calls[i].promise = "resolved"
       /\ 101 \in IdsOfSet(store)
       /\ 101 \notin IdsOfSet(work)

\* C14: saveCardToDB(record), when it commits, leaves the store with the
\* complete given record under its id, every record with another id as it
\* was and nothing else; the number of records grows by one when the id was
\* new and stays the same otherwise.  It has resolved once its request has
\* succeeded.
C14_SaveUpserts ==
    [][\A i \in DOMAIN calls :
          (calls[i].kind = "save" /\ KeyOk(calls[i].card[1])) =>
             /\ AllDone(calls[i]) => calls[i].promise = "resolved"
             /\ Commit(i) =>
                   LET rec == calls[i].card[1] IN
                   /\ rec \in store'
                   /\ \A r \in store' : r.id = rec.id => r = rec
                   /\ \A r \in store : r.id # rec.id => r \in store'
                   /\ \A r \in store' : r.id # rec.id => r \in store
                   /\ Cardinality(store') =
                         IF rec.id \in IdsOfSet(store)
                         THEN Cardinality(store)
                         ELSE Cardinality(store) + 1]_vars

\* A save of a record whose id is in the store with other field values has
\* resolved: its transaction holds the new record in place of the old one.
C14_Witness ==
    \E i \in DOMAIN calls :
       /\ calls[i].kind = "save"
       /\ calls[i].promise = "resolved"
       /\ calls[i].card[1] = RecASold
       /\ RecA \in store
       /\ RecASold \in work
       /\ RecA \notin work

\* createdAt does not grow along the sequence.
SortedDesc(s) ==
    \A k \in 1..(Len(s) - 1) : s[k].createdAt >= s[k + 1].createdAt

\* C15: loadCardsFromDB returns every record of the store, each once,
\* ordered by createdAt descending, and leaves the store unchanged.
C15_LoadAllSorted ==
    [][\A i \in DOMAIN calls :
          calls[i].kind = "load" =>
             /\ ExecOk(i) =>
                   /\ Range(cards') = store
                   /\ Len(cards') = Cardinality(store)
                   /\ SortedDesc(cards')
             /\ (ExecOk(i) \/ Commit(i)) => store' = store]_vars

\* A load has returned three records, two of them with the same createdAt,
\* in an order that is not the order of their keys.
C15_Witness ==
    /\ Len(cards) = 3
    /\ cards[1].createdAt > cards[2].createdAt
    /\ cards[2].createdAt = cards[3].createdAt
    /\ cards[1].id > cards[2].id

\* C16: an edit command writes a record with the id and the createdAt of
\* the record that was opened for editing, whatever the form holds: the
\* record handed to saveCardToDB has them, every entry of the cards list is
\* either left as it was or replaced by that record, and the record put in
\* the store is the one handed over.
C16_EditKeepsIdentity ==
    [][/\ SubmitEdit =>
             LET c == calls'[Len(calls')] IN
             /\ c.kind = "save"
             /\ c.card[1].id = editingCard[1].id
             /\ c.card[1].createdAt = editingCard[1].createdAt
             /\ Len(cards') = Len(cards)
             /\ \A k \in DOMAIN cards :
                   \/ cards'[k] = cards[k]
                   \/ cards'[k] = c.card[1] /\ cards[k].id = c.card[1].id
       /\ \A i \in DOMAIN calls :
             (calls[i].kind = "save" /\ ExecOk(i))
                => calls[i].card[1] \in work']_vars

\* The loaded record 101, edited to another price, is in the cards list and
\* in the store with its id and createdAt.
C16_Witness ==
    \E k \in DOMAIN cards :
       /\ cards[k].id = RecA.id
       /\ cards[k].createdAt = RecA.createdAt
       /\ cards[k].buyPrice # RecA.buyPrice
       /\ cards[k] \in store

\* C17: an import of a file whose text does not parse, or parses to a value
\* that is no array, shows an error alert and changes nothing: the store,
\* the cards list and the calls are as before, no bulkSaveCardsToDB call is
\* made.
C17_BadFileChangesNothing ==
    [][(ImportInvalid \/ ImportNotArray) =>
          /\ notice' \in {"invalid", "badFormat"}
          /\ store' = store
          /\ work' = work
          /\ cards' = cards
          /\ calls' = calls
          /\ issued' = issued]_vars

\* The format alert has been shown over the loaded list and store.
C17_Witness ==
    /\ notice = "badFormat"
    /\ Len(cards) = 2
    /\ store = {RecA, RecB}

\* C18: when the confirmation of a delete, a bulk delete or an import is
\* declined, no storage call is made and the store and the cards list are
\* as before.
C18_DeclineChangesNothing ==
    [][notice' = "declined" =>
          /\ calls' = calls
          /\ issued' = issued
          /\ store' = store
          /\ work' = work
          /\ cards' = cards]_vars

\* A confirmation has been declined over the loaded list and store.
C18_Witness ==
    /\ notice = "declined"
    /\ Len(cards) = 2
    /\ store = {RecA, RecB}

\* The sum of f over the indices in K.
RECURSIVE SumIdx(_, _)
SumIdx(f, K) ==
    IF K = {} THEN 0
    ELSE LET k == CHOOSE x \in K : TRUE IN f[k] + SumIdx(f, K \ {k})

BuyPrices(s) == [k \in DOMAIN s |-> s[k].buyPrice]

SellPrices(s) == [k \in DOMAIN s |-> s[k].sellPrice]

\* The sold records whose sellPrice is not null.
SoldWithPrice(s) == {k \in DOMAIN s : s[k].isSold /\ s[k].sellPrice # NULL}

\* C19: soldCount is the number of sold records with a non-null sellPrice,
\* totalSoldVal the sum of their sellPrice, soldCostBasis the sum of their
\* buyPrice and netProfit the difference of the two sums.
C19_SoldSums ==
    dashboard # <<>> =>
       LET st == dashboard[1].stats
           K == SoldWithPrice(cards)
       IN /\ st.soldCount = Cardinality(K)
          /\ st.totalSoldVal = SumIdx(SellPrices(cards), K)
          /\ StatsLoop(ZeroSums, cards).soldCostBasis
                = SumIdx(BuyPrices(cards), K)
          /\ st.netProfit = SumIdx(SellPrices(cards), K)
                             - SumIdx(BuyPrices(cards), K)

\* C20: totalInvested is the sum of buyPrice over all records, unsoldValue
\* the sum of buyPrice over the unsold ones; for the empty list every
\* statistic is 0 and the time series is empty.
C20_InvestedSums ==
    dashboard # <<>> =>
       LET st == dashboard[1].stats IN
       /\ st.totalInvested = SumIdx(BuyPrices(cards), DOMAIN cards)
       /\ st.unsoldValue =
             SumIdx(BuyPrices(cards), {k \in DOMAIN cards : ~cards[k].isSold})
       /\ cards = <<>> =>
             /\ st = [totalInvested |-> 0, totalSoldVal |-> 0, netProfit |-> 0,
                      roi |-> [num |-> 0, den |-> 1], totalCards |-> 0,
                      soldCount |-> 0, unsoldValue |-> 0]
             /\ dashboard[1].chartData = <<>>

\* The dashboard is rendered on three cards, sold and unsold ones.
C20_Witness ==
    /\ dashboard # <<>>
    /\ Len(cards) = 3
    /\ dashboard[1].stats.unsoldValue > 0
    /\ dashboard[1].stats.totalInvested > dashboard[1].stats.unsoldValue

\* The sold records the claims count: sellPrice is not null.
SoldCost(s) == SumIdx(BuyPrices(s), SoldWithPrice(s))

SoldProceeds(s) == SumIdx(SellPrices(s), SoldWithPrice(s))

\* C21: roi is netProfit / costBasisOfSold * 100 when costBasisOfSold, the
\* sum of buyPrice over the sold records with a non-null sellPrice, is
\* positive, and 0 otherwise.
C21_Roi ==
    dashboard # <<>> =>
       LET roi == dashboard[1].stats.roi
           cost == SoldCost(cards)
           netProfit == SoldProceeds(cards) - cost
       IN /\ roi.den # 0
          /\ IF cost > 0
             THEN roi.num * cost = netProfit * 100 * roi.den
             ELSE roi.num = 0

\* The sold records the series is about: sellDate and sellPrice not null.
Dated(s) ==
    {k \in DOMAIN s :
        s[k].isSold /\ s[k].sellDate # NULL /\ s[k].sellPrice # NULL}

\* The elements of a set of numbers in ascending order.
RECURSIVE Ascending(_)
Ascending(S) ==
    IF S = {} THEN <<>>
    ELSE LET m == CHOOSE x \in S : \A y \in S : x <= y
         IN <<m>> \o Ascending(S \ {m})

\* One point per sale date, with the sums over the sales up to that date.
SeriesOf(s) ==
    LET dates == Ascending({s[k].sellDate : k \in Dated(s)})
        upTo(d) == {k \in Dated(s) : s[k].sellDate <= d}
    IN [j \in DOMAIN dates |->
          [date |-> dates[j],
           profit |-> SumIdx(SellPrices(s), upTo(dates[j]))
                      - SumIdx(BuyPrices(s), upTo(dates[j])),
           sales |-> SumIdx(SellPrices(s), upTo(dates[j]))]]

\* C24: the cumulative series has one point per distinct sellDate of the
\* sold records with non-null sellDate and sellPrice, in strictly ascending
\* date order, each with the sums of sellPrice - buyPrice and of sellPrice
\* over those records sold up to and including its date, whatever the order
\* of the records.
C24_Series ==
    dashboard # <<>> => dashboard[1].chartData = SeriesOf(cards)

\* C30: when every sold record has a non-null sellPrice, totalInvested is
\* unsoldValue plus soldCostBasis, totalCards is soldCount plus the number
\* of unsold records, and the last point of the series, if there is one,
\* has netProfit as its profit.
C30_TotalsConsistent ==
    (dashboard # <<>>
       /\ \A k \in DOMAIN cards : cards[k].isSold => cards[k].sellPrice # NULL)
    => LET st == dashboard[1].stats
           chart == dashboard[1].chartData
           unsold == {k \in DOMAIN cards : ~cards[k].isSold}
       IN /\ st.totalInvested
                = st.unsoldValue + StatsLoop(ZeroSums, cards).soldCostBasis
          /\ st.totalCards = st.soldCount + Cardinality(unsold)
          /\ chart # <<>> => chart[Len(chart)].profit = st.netProfit

\* The cards of s dated in the days lo..hi by buyDate or by sellDate.
RECURSIVE DatedWithin(_, _, _)
DatedWithin(s, lo, hi) ==
    IF s = <<>> THEN <<>>
    ELSE LET c == s[1]
             in == \/ lo <= c.buyDate /\ c.buyDate <= hi
                   \/ c.sellDate # NULL /\ lo <= c.sellDate /\ c.sellDate <= hi
         IN (IF in THEN <<c>> ELSE <<>>) \o DatedWithin(Tail(s), lo, hi)

\* The cards of s dated, by buyDate or by sellDate, at an instant in lo..hi.
RECURSIVE InstantWithin(_, _, _)
InstantWithin(s, lo, hi) ==
    IF s = <<>> THEN <<>>
    ELSE LET c == s[1]
             b == c.buyDate * TicksPerDay
             e == c.sellDate * TicksPerDay
             in == \/ lo <= b /\ b <= hi
                   \/ c.sellDate # NULL /\ lo <= e /\ e <= hi
         IN (IF in THEN <<c>> ELSE <<>>) \o InstantWithin(Tail(s), lo, hi)

DaysOfFilter(dateFilter) ==
    CASE dateFilter = "7days" -> 7
      [] dateFilter = "30days" -> 30
      [] dateFilter = "90days" -> 90

\* C22: under 7days, 30days and 90days rendered at instant now the cards
\* shown are exactly those whose buyDate, or whose sellDate, lies in
\* [now - N days, now].
C22_LastDays ==
    (dashboard # <<>> /\ cards # <<>>
       /\ dashboard[1].dateFilter \in {"7days", "30days", "90days"})
    => LET now == dashboard[1].now
           n == DaysOfFilter(dashboard[1].dateFilter)
       IN dashboard[1].filteredCards
             = InstantWithin(cards, now - n * TicksPerDay, now)

\* C23: under lastMonth the cards shown are exactly those whose buyDate, or
\* whose sellDate, is a day of the previous month, its first and its last
\* day included.
C23_LastMonth ==
    (dashboard # <<>> /\ cards # <<>>
       /\ dashboard[1].dateFilter = "lastMonth")
    => LET today == LocalDay(dashboard[1].now, dashboard[1].tz)
           first == MakeDay(YearOf(today), MonthOf(today) - 1, 1)
           last == MakeDay(YearOf(today), MonthOf(today), 1) - 1
       IN dashboard[1].filteredCards = DatedWithin(cards, first, last)

\* C27: an edit session for record B stays B's for as long as its form is
\* open: no step that leaves the form open takes B away from it, so the
\* submit made in it replaces B and creates no new record.
C27_EditSessionKept ==
    [][(isModalOpen /\ editingCard # <<>> /\ isModalOpen')
          => editingCard' = editingCard]_vars

\* reader.onload on a backup file whose entries all have a key and
\* distinct ids, the overwrite confirmed.
ImportSound ==
    /\ ImportConfirmed
    /\ LET data == calls'[Len(calls')].data
       IN /\ \A k \in DOMAIN data : KeyOk(data[k])
          /\ UniqueIds(data)

\* Every command, with a storage that never fails and backup files that are
\* sound: every call that is made succeeds.
NextQuiet ==
    \/ \E i \in DOMAIN calls : OpenOk(i)
    \/ \E i \in DOMAIN calls : ExecOk(i)
    \/ \E i \in DOMAIN calls : Commit(i)
    \/ OpenAddModal
    \/ OpenEditModal
    \/ CloseModal
    \/ SubmitAdd
    \/ SubmitEdit
    \/ DeleteCard
    \/ BulkDelete
    \/ SelectImportFile
    \/ ImportSound

SpecQuiet == Init /\ [][NextQuiet]_vars

\* C26: when no storage call is in flight, every call made so far having
\* succeeded, the cards list and the store hold the same records.
C26_CacheAgreesWithStore ==
    calls = <<>> => UniqueIds(cards) /\ Range(cards) = store

\* The pending reads the form has started since its last reset.
ActiveReads == {k \in DOMAIN form.pending : ~form.pending[k].stale}

\* C25: within one form session at most one image read is pending at a
\* time.
C25_OneImageRead == Cardinality(ActiveReads) <= 1

\* C28: a read started before the form was reset, completing while the form
\* is open, leaves the imageUrl of the form as it is.
C28_StaleReadIgnored ==
    [][\A k \in DOMAIN form.pending :
          (/\ isModalOpen
           /\ form.pending[k].stale
           /\ form'.pending = RemoveAt(form.pending, k))
          => form'.imageUrl = form.imageUrl]_vars

\* C29: every selected id is the id of a card the inventory view displays.
C29_SelectionDisplayed ==
    ~isLoading => inventory.selectedIds \subseteq IdsOf(FilteredCards)

====
